---- MODULE Spec2Model ----
(***************************************************************************)
(* Model of the conversion server: the two controllers (ImageController,   *)
(* PDFController), the codec adapters they drive (ImageConverter,          *)
(* PDFConverter), the progress broadcast over wss.clients, the process     *)
(* wide store global.tempFiles and the download route with its deferred    *)
(* deletion timer.                                                         *)
(*                                                                         *)
(* Node runs one callback at a time, so every action below is the code     *)
(* that runs between two suspension points that wait on a macrotask (the   *)
(* sharp thread pool, pdf-lib load/save, a timer, a socket event).  Awaits *)
(* on async functions that do no I/O (optimizePage, optimizeDocument) only *)
(* yield to the microtask queue and are part of the enclosing step.        *)
(*                                                                         *)
(* Progress values are JavaScript doubles; they are held here in fixed     *)
(* point, in units of 1/PScale percent.                                    *)
(***************************************************************************)
EXTENDS Integers, Sequences, FiniteSets, TLC

\* ---------------------------------------------------------------- bounds
MaxRuns == 2
MaxClients == 2
MaxEnv == 3
TimerEnv == 5
MaxPages == 9

RunIds == 1..MaxRuns
ClientIds == 1..MaxClients

\* ------------------------------------------------------ program constants
OPEN == 1
maxAge == 10 * 60 * 1000
GraceDelay == 60000
\* The fixed-point unit: a multiple of 10 and of every page count up to 10,
\* so that progress * 0.6, progress * 0.7 and (i / totalPages) * 40 are exact
\* (the doubles of the code agree with the exact values wherever two of them
\* are compared here: 30 + 100 * 0.6 and 20 + 100 * 0.7 are exactly 90).
PScale == 2 * 2 * 2 * 3 * 3 * 5 * 7

\* ---------------------------------------------------------- input domains
\* Output formats a request may name: one the codec supports, one it rejects.
ReqFormats == {"jpg", "svg"}
ReqLevels == {"high"}
PageCounts == {1, MaxPages}
InSizes == {2}
OutSizes == {1}
\* Clock steps in milliseconds.
TickSteps == {1, GraceDelay, maxAge}

\* Error messages are sequences of text fragments; template-string
\* concatenation is sequence concatenation.
NoError == <<>>
LibError == <<"library error">>
SendError == <<"send failed">>

VARIABLES
  now,            \* Date.now()
  env,            \* number of environment events so far: clock steps,
                  \* socket events, downloads (bounds the exploration)
  wssSet,         \* app.get('wss') is defined
  clients,        \* wss.clients, in insertion (= iteration) order
  readyState,     \* readyState of every socket
  sendFails,      \* sockets whose send() throws
  sent,           \* per socket: the messages the latest broadcasting step
                  \* wrote to it, each as <<run, index in pub[run]>>
  pc,             \* per run: the suspension point it waits at
  req,            \* per run: the request that started it
  pub,            \* per run: the events handed to broadcastProgress
  result,         \* per run: the HTTP response of the conversion request
  tempFilesDefined, \* global.tempFiles is not undefined
  tempFiles,      \* global.tempFiles
  timers,         \* pending deferred-deletion timers
  dl,             \* response of the latest download request
  served,         \* per identifier, when a download first served it
  applied,        \* the latest call of getCompressionSettings and its result
  up              \* response of the latest upload request

vars == <<now, env, wssSet, clients, readyState, sendFails, sent, pc, req,
          pub, result, tempFilesDefined, tempFiles, timers, dl,
          served, applied, up>>

netVars == <<wssSet, clients, readyState, sendFails>>
storeVars ==
  <<tempFilesDefined, tempFiles, timers, dl, served, applied, up>>
clockVars == <<now, env>>
runVars == <<pc, req, pub, result, sent>>

\* ------------------------------------------------------------- strings
toLowerCase(s) ==
  CASE s = "PNG" -> "png"
    [] s = "JPG" -> "jpg"
    [] s = "JPEG" -> "jpeg"
    [] s = "WEBP" -> "webp"
    [] s = "BMP" -> "bmp"
    [] s = "GIF" -> "gif"
    [] s = "TIFF" -> "tiff"
    [] s = "SVG" -> "svg"
    [] s = "Jpg" -> "jpg"
    [] s = "pNg" -> "png"
    [] s = "Tiff" -> "tiff"
    [] OTHER -> s

mimeTypes ==
  [f \in {"jpg", "jpeg", "png", "webp", "bmp", "gif", "tiff"} |->
     CASE f = "jpg" -> "image/jpeg"
       [] f = "jpeg" -> "image/jpeg"
       [] f = "png" -> "image/png"
       [] f = "webp" -> "image/webp"
       [] f = "bmp" -> "image/bmp"
       [] f = "gif" -> "image/gif"
       [] f = "tiff" -> "image/tiff"]

\* getMimeType looking the format up as it was spelled in the request.
getMimeTypeAsSpelled(format) ==
  IF format \in DOMAIN mimeTypes
    THEN mimeTypes[format]
    ELSE "application/octet-stream"

getMimeType(format) ==
  IF toLowerCase(format) \in DOMAIN mimeTypes
    THEN mimeTypes[toLowerCase(format)]
    ELSE "application/octet-stream"

\* The switch of ImageConverter.convert: the default branch throws.
SupportedOutput(format) ==
  toLowerCase(format) \in {"jpg", "jpeg", "png", "webp", "bmp", "gif", "tiff"}

\* ------------------------------------------------------------ progress
P(x) == x * PScale

Ev(p) == [progress |-> p, hasError |-> FALSE, error |-> NoError]
FailEv(msg) == [progress |-> 0, hasError |-> TRUE, error |-> msg]

\* The relay without its rescaling into the 30..90 band.
ImageRelayUnscaled(p) == P(30) + p

\* progressCallback of convertImage: 30 + (progress * 0.6)
ImageRelay(p) == P(30) + (p * 6) \div 10

\* The relay without its rescaling into the 20..90 band.
PdfRelayUnscaled(p) == P(20) + p

\* progressCallback of compressPDF: 20 + (progress * 0.7)
PdfRelay(p) == P(20) + (p * 7) \div 10

\* pageProgress of applyCompression: 50 + (i / totalPages) * 40
PageProgress(i, totalPages) == P(50) + ((i * PScale) \div totalPages) * 40

\* The progress values applyCompression reports: one per page, then 85.
applyCompressionProgress(totalPages) ==
  [i \in 1..totalPages |-> PageProgress(i - 1, totalPages)] \o <<P(85)>>

\* ------------------------------------------------------------- broadcast
\* A readiness test that lets a closing socket through.
IsNotClosed(c) == readyState[c] \in {OPEN, 2}

\* client.readyState === 1
IsOpen(c) == readyState[c] = OPEN

\* wss.clients.forEach stops at the first send() that throws: the index in
\* clients of the first open socket whose send throws, 0 when none does.
FirstThrow ==
  IF \E i \in 1..Len(clients) : IsOpen(clients[i]) /\ clients[i] \in sendFails
    THEN CHOOSE i \in 1..Len(clients) :
           /\ IsOpen(clients[i]) /\ clients[i] \in sendFails
           /\ \A j \in 1..(i - 1) :
                ~(IsOpen(clients[j]) /\ clients[j] \in sendFails)
    ELSE 0

\* broadcastProgress throws in the current state.
BroadcastThrows == wssSet /\ FirstThrow # 0

\* The sockets broadcastProgress writes the message to.
Receivers ==
  IF ~wssSet THEN {}
  ELSE {clients[i] : i \in {j \in 1..Len(clients) :
                              /\ IsOpen(clients[j])
                              /\ clients[j] \notin sendFails
                              /\ (FirstThrow = 0 \/ j < FirstThrow)}}

\* broadcastProgress writing the events of one step last first.
BroadcastReversed(r, evs) ==
  /\ pub' = [pub EXCEPT ![r] = @ \o evs]
  /\ sent' = [c \in ClientIds |->
                IF c \in Receivers
                  THEN [k \in 1..Len(evs) |->
                          <<r, Len(pub[r]) + Len(evs) + 1 - k>>]
                  ELSE <<>>]

\* broadcastProgress called for each event of evs by run r.
Broadcast(r, evs) ==
  /\ pub' = [pub EXCEPT ![r] = @ \o evs]
  /\ sent' = [c \in ClientIds |->
                IF c \in Receivers
                  THEN [k \in 1..Len(evs) |-> <<r, Len(pub[r]) + k>>]
                  ELSE <<>>]


\* ----------------------------------------------------------------- store
NoName == <<"", 0, "">>
NoBuffer == [owner |-> 0, length |-> 0]
NoFile == [buffer |-> NoBuffer, mimeType |-> "", originalName |-> <<>>,
           timestamp |-> 0]
\* A name no run is ever given.
Fabricated == <<"converted", 0, "nothing">>

\* global.tempFiles and the settings tables are plain objects ({}): a lookup
\* obj[key] of a key that is not an own property goes on to Object.prototype
\* and finds these, all of them truthy.
ObjectPrototypeKeys ==
  {"constructor", "__proto__", "hasOwnProperty", "isPrototypeOf",
   "propertyIsEnumerable", "toLocaleString", "toString", "valueOf"}

\* The name a client asks for with GET /download/<key>.
RawName(key) == <<key, 0, "">>

\* `converted_${Date.now()}.${format}`
ImageFilename(format) == <<"converted", now, format>>
\* `compressed_${Date.now()}.pdf`
PdfFilename == <<"compressed", now, "pdf">>

Put(tf, name, file) ==
  [x \in (DOMAIN tf) \cup {name} |-> IF x = name THEN file ELSE tf[x]]

Remove(tf, names) == [x \in (DOMAIN tf) \ names |-> tf[x]]

\* A sweep that finds no record too old.
ExpiredNone(tf) == {}

\* A sweep that already takes a record of exactly ten minutes.
ExpiredAtLimit(tf) == {x \in DOMAIN tf : now - tf[x].timestamp >= maxAge}

\* cleanupOldFiles of both controllers (the two bodies are the same).
Expired(tf) == {x \in DOMAIN tf : now - tf[x].timestamp > maxAge}

\* A sweep that stops after the first record it deletes.
cleanupOnlyFirst(tf) ==
  IF Expired(tf) = {} THEN tf
  ELSE Remove(tf, {CHOOSE x \in Expired(tf) : TRUE})

cleanupOldFiles(tf) == Remove(tf, Expired(tf))

\* A storeForDownload that records one content type for every format.
ImageStoreOctet(tf, buffer, format) ==
  cleanupOldFiles(
    Put(tf, ImageFilename(format),
        [buffer |-> buffer,
         mimeType |-> "application/octet-stream",
         originalName |-> <<"converted_image.", format>>,
         timestamp |-> now]))

\* ImageController.storeForDownload: the mapping it leaves behind.
ImageStore(tf, buffer, format) ==
  cleanupOldFiles(
    Put(tf, ImageFilename(format),
        [buffer |-> buffer,
         mimeType |-> getMimeType(format),
         originalName |-> <<"converted_image.", format>>,
         timestamp |-> now]))

\* PDFController.storeForDownload: the mapping it leaves behind.
PdfStore(tf, buffer) ==
  cleanupOldFiles(
    Put(tf, PdfFilename,
        [buffer |-> buffer,
         mimeType |-> "application/pdf",
         originalName |-> <<"compressed_document.pdf">>,
         timestamp |-> now]))

\* ------------------------------------------------- compression settings
\* Values of JavaScript: undefined, a property inherited from
\* Object.prototype, and the empty object {}.
Undefined == [undefined |-> TRUE]
Inherited(key) == [inherited |-> key]
EmptyObject == [empty |-> TRUE]

\* obj[key] on a plain object: an own property, else one of
\* Object.prototype, else undefined.
Lookup(obj, key) ==
  IF key \in DOMAIN obj THEN obj[key]
  ELSE IF key \in ObjectPrototypeKeys THEN Inherited(key)
  ELSE Undefined

\* obj?.[key]
OptionalLookup(obj, key) ==
  IF obj = Undefined THEN Undefined ELSE Lookup(obj, key)

\* a || b: every object and function is truthy, undefined is not.
Or(a, b) == IF a # Undefined THEN a ELSE b

\* A compressionLevel of a request body: absent, or a string.
Absent == [given |-> FALSE, text |-> ""]
Given(text) == [given |-> TRUE, text |-> text]

\* The property key a level is used as: undefined becomes "undefined".
PropertyKey(level) == IF level.given THEN level.text ELSE "undefined"

\* compressionLevel || 'medium' of both POST handlers.
RouteLevel(level) ==
  IF ~level.given \/ level.text = "" THEN Given("medium") ELSE level

\* The settings table of PDFConverter.getCompressionSettings.
PdfSettings ==
  [low |-> [useObjectStreams |-> FALSE,
            objectStreamCompressionMethod |-> "deflate",
            scaleImages |-> FALSE,
            removeAnnotations |-> FALSE,
            removeDuplicateObjects |-> FALSE],
   medium |-> [useObjectStreams |-> TRUE,
               objectStreamCompressionMethod |-> "deflate",
               scaleImages |-> FALSE,
               removeAnnotations |-> FALSE,
               removeDuplicateObjects |-> TRUE],
   high |-> [useObjectStreams |-> TRUE,
             objectStreamCompressionMethod |-> "deflate",
             scaleImages |-> TRUE,
             removeAnnotations |-> TRUE,
             removeDuplicateObjects |-> TRUE]]

\* PDFConverter.getCompressionSettings
getCompressionSettings(level) ==
  Or(Lookup(PdfSettings, PropertyKey(level)), PdfSettings.medium)

JpegSettings ==
  [low |-> [quality |-> 90, progressive |-> TRUE],
   medium |-> [quality |-> 75, progressive |-> TRUE],
   high |-> [quality |-> 60, progressive |-> TRUE, mozjpeg |-> TRUE]]

\* The settings table of ImageConverter.getCompressionSettings.
ImageSettings ==
  [jpg |-> JpegSettings,
   jpeg |-> JpegSettings,
   png |-> [low |-> [compressionLevel |-> 3, adaptiveFiltering |-> FALSE],
            medium |-> [compressionLevel |-> 6, adaptiveFiltering |-> TRUE],
            high |-> [compressionLevel |-> 9, adaptiveFiltering |-> TRUE,
                      palette |-> TRUE]],
   webp |-> [low |-> [quality |-> 90, effort |-> 2],
             medium |-> [quality |-> 75, effort |-> 4],
             high |-> [quality |-> 60, effort |-> 6, lossless |-> FALSE]],
   tiff |-> [low |-> [compression |-> "lzw"],
             medium |-> [compression |-> "deflate"],
             high |-> [compression |-> "jpeg", quality |-> 75]]]

\* ImageConverter.getCompressionSettings
imageGetCompressionSettings(format, level) ==
  LET table == Lookup(ImageSettings, toLowerCase(format))
  IN Or(Or(OptionalLookup(table, PropertyKey(level)),
           OptionalLookup(table, "medium")),
        EmptyObject)

\* No call of getCompressionSettings yet.
NoApplied == [kind |-> "", format |-> "", requested |-> Absent,
              level |-> Absent, settings |-> Undefined]

\* ----------------------------------------------------------- upload route
SUPPORTED_IMAGE_TYPES ==
  {"image/jpeg", "image/jpg", "image/png", "image/webp", "image/bmp",
   "image/gif", "image/tiff", "image/heic"}
SUPPORTED_PDF_TYPES == {"application/pdf"}
ALL_SUPPORTED_TYPES == SUPPORTED_IMAGE_TYPES \cup SUPPORTED_PDF_TYPES

\* multer limits.fileSize
fileSize == 50 * 1024 * 1024

NoUpload == [status |-> 0, error |-> "", size |-> 0, isImage |-> FALSE,
             isPDF |-> FALSE]

\* POST /api/upload/file: multer's fileFilter sees the part's type before
\* its bytes, the size limit is met while the bytes are read, the handler
\* runs when the file was taken or when there was none.
UploadResponse(file) ==
  IF ~file.present
    THEN [NoUpload EXCEPT !.status = 400, !.error = "No file uploaded"]
  ELSE IF file.mimetype \notin ALL_SUPPORTED_TYPES
    THEN [NoUpload EXCEPT !.status = 500, !.error = "Unsupported file type"]
  ELSE IF file.size > fileSize
    THEN [NoUpload EXCEPT !.status = 400, !.error = "File too large"]
  ELSE [status |-> 200, error |-> "", size |-> file.size,
        isImage |-> file.mimetype \in SUPPORTED_IMAGE_TYPES,
        isPDF |-> file.mimetype \in SUPPORTED_PDF_TYPES]

UploadFile(file) ==
  /\ up' = UploadResponse(file)
  /\ UNCHANGED <<now, env, wssSet, clients, readyState, sendFails, sent, pc,
                 req, pub, result, tempFilesDefined, tempFiles, timers, dl,
                 served, applied>>

\* ------------------------------------------------------------ controllers
Abs(x) == IF x < 0 THEN 0 - x ELSE x

\* (num / den).toFixed(1), den > 0: the sign of the number, kept also when
\* it rounds to zero ("-0.0"), and its magnitude in tenths, rounded half up.
toFixed1(num, den) ==
  [minus |-> num < 0, tenths |-> (2 * 10 * Abs(num) + den) \div (2 * den)]

\* A ratio cut off at zero for an output larger than the input.
compressionRatioClamped(originalSize, convertedSize) ==
  IF convertedSize > originalSize THEN toFixed1(0, originalSize)
  ELSE toFixed1((originalSize - convertedSize) * 100, originalSize)

\* ((originalSize - convertedSize) / originalSize * 100).toFixed(1)
compressionRatio(originalSize, convertedSize) ==
  toFixed1((originalSize - convertedSize) * 100, originalSize)

NoResult == [status |-> 0, error |-> NoError, downloadUrl |-> NoName,
             originalSize |-> 0, convertedSize |-> 0,
             compressionRatio |-> [minus |-> FALSE, tenths |-> 0]]
NoReq == [kind |-> "", outputFormat |-> "", compressionLevel |-> "",
          size |-> 0, pageCount |-> 0]

Call(ev) == [ev |-> ev, inCodec |-> FALSE]
CodecCall(ev) == [ev |-> ev, inCodec |-> TRUE]

ImageCodecPrefix == <<"Failed to convert image: ">>
ImagePrefix == <<"Image conversion failed: ">>
PdfCodecPrefix == <<"Failed to compress PDF: ">>
PdfPrefix == <<"PDF compression failed: ">>

\* The error the controller's catch block receives for one step of a run.
\* body: the broadcastProgress calls the try block makes in this step, in
\* order (inCodec: the call is made by the converter's progressCallback,
\* inside the converter's own try/catch, which rewraps what it catches);
\* thrown: what the awaited library call or the converter throws at the end
\* of the step, NoError when the step ends at the next await or returns.
Caught(body, thrown, codecPrefix) ==
  IF BroadcastThrows /\ body # <<>>
    THEN IF body[1].inCodec THEN codecPrefix \o SendError ELSE SendError
    ELSE thrown

\* The events the try block gets to publish: all of them, or only the one
\* whose send threw.
TryEvents(body) ==
  IF BroadcastThrows /\ body # <<>>
    THEN <<body[1].ev>>
    ELSE [k \in 1..Len(body) |-> body[k].ev]

\* A catch block that publishes nothing.
CatchSilently(caught) == <<>>

\* The catch block of convertImage / compressPDF: one event with progress 0
\* carrying error.message.
CatchEvents(caught) ==
  IF caught = NoError THEN <<>> ELSE <<FailEv(caught)>>

\* Everything the step hands to broadcastProgress.
StepEvents(body, thrown, codecPrefix) ==
  TryEvents(body) \o CatchEvents(Caught(body, thrown, codecPrefix))

\* What the promise rejects with: the broadcast in the catch block throws
\* again when a send still throws, else the catch block throws its own Error.
Rejection(caught, prefix) ==
  IF BroadcastThrows THEN SendError ELSE prefix \o caught

\* The route's catch: res.status(500).json({ error: error.message || ... })
Response500(msg) == [NoResult EXCEPT !.status = 500, !.error = msg]

\* One step of a run that does not reach storeForDownload.
RunStep(r, body, thrown, codecPrefix, prefix, next) ==
  LET caught == Caught(body, thrown, codecPrefix) IN
  /\ Broadcast(r, StepEvents(body, thrown, codecPrefix))
  /\ IF caught = NoError
       THEN /\ pc' = [pc EXCEPT ![r] = next]
            /\ UNCHANGED result
       ELSE /\ pc' = [pc EXCEPT ![r] = "done"]
            /\ result' = [result EXCEPT ![r] = Response500(Rejection(caught, prefix))]

\* ---- ImageController.convertImage / ImageConverter.convert
\* POST /image without the test of its required fields.
StartImageUnchecked(r, hasData, format, level, size) ==
  /\ pc[r] = "idle"
  /\ req' = [req EXCEPT ![r] =
               [kind |-> "image", outputFormat |-> format,
                compressionLevel |-> level, size |-> size, pageCount |-> 0]]
  /\ RunStep(r, <<Call(Ev(P(10)))>>, NoError, ImageCodecPrefix, ImagePrefix,
             "metadata")
  /\ UNCHANGED <<netVars, storeVars, clockVars>>

\* POST /image
StartImage(r, hasData, format, level, size) ==
  /\ pc[r] = "idle"
  /\ IF ~hasData \/ format = ""
       THEN /\ pc' = [pc EXCEPT ![r] = "done"]
            /\ result' = [result EXCEPT ![r] = [NoResult EXCEPT !.status = 400]]
            /\ UNCHANGED <<req, pub, sent>>
       ELSE /\ req' = [req EXCEPT ![r] =
                        [kind |-> "image", outputFormat |-> format,
                         compressionLevel |-> level, size |-> size,
                         pageCount |-> 0]]
            /\ RunStep(r, <<Call(Ev(P(10)))>>, NoError, ImageCodecPrefix,
                    ImagePrefix, "metadata")
  /\ UNCHANGED <<netVars, storeVars, clockVars>>

\* The calls made once sharp(buffer).metadata() has resolved, up to the
\* await of toBuffer() or the throw of the format switch.
ImageConvertBody(format) ==
  <<Call(Ev(P(30))), CodecCall(Ev(ImageRelay(P(10)))),
    CodecCall(Ev(ImageRelay(P(30))))>>
  \o (IF SupportedOutput(format)
        THEN <<CodecCall(Ev(ImageRelay(P(60))))>> ELSE <<>>)

ImageConvertThrown(format) ==
  IF SupportedOutput(format) THEN NoError
  ELSE ImageCodecPrefix \o <<"Unsupported output format: ", format>>

MetadataDone(r, ok) ==
  /\ pc[r] = "metadata"
  /\ IF ok
       THEN RunStep(r, ImageConvertBody(req[r].outputFormat),
                    ImageConvertThrown(req[r].outputFormat),
                    ImageCodecPrefix, ImagePrefix, "toBuffer")
       ELSE RunStep(r, <<>>, LibError, ImageCodecPrefix, ImagePrefix, "toBuffer")
  /\ UNCHANGED <<req, netVars, storeVars, clockVars>>

\* The final calls with the completion event published before the store.
ImageFinishBodyEarly100 ==
  <<CodecCall(Ev(ImageRelay(P(90)))), CodecCall(Ev(ImageRelay(P(100)))),
    Call(Ev(P(100))), Call(Ev(P(90)))>>

\* The calls made once toBuffer() has resolved: the converter's 90 and 100,
\* the controller's 90, storeForDownload, the controller's 100.
ImageFinishBody ==
  <<CodecCall(Ev(ImageRelay(P(90)))), CodecCall(Ev(ImageRelay(P(100)))),
    Call(Ev(P(90))), Call(Ev(P(100)))>>

\* One final step of a run: with no throwing send it stores the output and
\* answers 200, otherwise the first send throws before storeForDownload.
FinishStep(r, body, codecPrefix, prefix, name, newFiles, outSize) ==
  IF BroadcastThrows
    THEN /\ RunStep(r, body, NoError, codecPrefix, prefix, "done")
         /\ UNCHANGED <<tempFilesDefined, tempFiles>>
    ELSE /\ Broadcast(r, TryEvents(body))
         /\ tempFilesDefined' = TRUE
         /\ tempFiles' = newFiles
         /\ pc' = [pc EXCEPT ![r] = "done"]
         /\ result' = [result EXCEPT ![r] =
                         [status |-> 200, error |-> NoError,
                          downloadUrl |-> name,
                          originalSize |-> req[r].size,
                          convertedSize |-> outSize,
                          compressionRatio |->
                            compressionRatio(req[r].size, outSize)]]

\* toBuffer() settled, with a catch block that sweeps the store.
ToBufferDoneSweeps(r, ok, outSize) ==
  /\ pc[r] = "toBuffer"
  /\ IF ok
       THEN FinishStep(r, ImageFinishBody, ImageCodecPrefix, ImagePrefix,
                       ImageFilename(req[r].outputFormat),
                       ImageStore(tempFiles, [owner |-> r, length |-> outSize],
                                  req[r].outputFormat),
                       outSize)
       ELSE /\ RunStep(r, <<>>, ImageCodecPrefix \o LibError,
                       ImageCodecPrefix, ImagePrefix, "done")
            /\ tempFiles' = cleanupOldFiles(tempFiles)
            /\ UNCHANGED tempFilesDefined
  /\ UNCHANGED <<req, netVars, timers, dl, served, applied, up,
                 clockVars>>

ToBufferDone(r, ok, outSize) ==
  /\ pc[r] = "toBuffer"
  /\ IF ok
       THEN FinishStep(r, ImageFinishBody, ImageCodecPrefix, ImagePrefix,
                       ImageFilename(req[r].outputFormat),
                       ImageStore(tempFiles, [owner |-> r, length |-> outSize],
                                  req[r].outputFormat),
                       outSize)
       ELSE /\ RunStep(r, <<>>, ImageCodecPrefix \o LibError,
                       ImageCodecPrefix, ImagePrefix, "done")
            /\ UNCHANGED <<tempFilesDefined, tempFiles>>
  /\ UNCHANGED <<req, netVars, timers, dl, served, applied, up,
                 clockVars>>

\* ---- PDFController.compressPDF / PDFConverter.compress
\* POST /pdf
StartPdf(r, hasData, level, size, pages) ==
  /\ pc[r] = "idle"
  /\ IF ~hasData
       THEN /\ pc' = [pc EXCEPT ![r] = "done"]
            /\ result' = [result EXCEPT ![r] = [NoResult EXCEPT !.status = 400]]
            /\ UNCHANGED <<req, pub, sent>>
       ELSE /\ req' = [req EXCEPT ![r] =
                        [kind |-> "pdf", outputFormat |-> "pdf",
                         compressionLevel |-> level, size |-> size,
                         pageCount |-> pages]]
            /\ RunStep(r, <<Call(Ev(P(10)))>>, NoError, PdfCodecPrefix,
                    PdfPrefix, "load")
  /\ UNCHANGED <<netVars, storeVars, clockVars>>

\* The controller's PDFDocument.load resolved: 20, then the converter's 10.
LoadDone(r, ok) ==
  /\ pc[r] = "load"
  /\ IF ok
       THEN RunStep(r, <<Call(Ev(P(20))), CodecCall(Ev(PdfRelay(P(10))))>>,
                    NoError, PdfCodecPrefix, PdfPrefix, "codecLoad")
       ELSE RunStep(r, <<>>, LibError, PdfCodecPrefix, PdfPrefix, "codecLoad")
  /\ UNCHANGED <<req, netVars, storeVars, clockVars>>

\* The converter's PDFDocument.load resolved: 30, 50, applyCompression
\* (every page, then 85), 90, up to the await of pdfDoc.save().
PdfCompressBody(totalPages) ==
  LET ac == applyCompressionProgress(totalPages) IN
  <<CodecCall(Ev(PdfRelay(P(30)))), CodecCall(Ev(PdfRelay(P(50))))>>
  \o [k \in 1..Len(ac) |-> CodecCall(Ev(PdfRelay(ac[k])))]
  \o <<CodecCall(Ev(PdfRelay(P(90))))>>

CodecLoadDone(r, ok) ==
  /\ pc[r] = "codecLoad"
  /\ IF ok
       THEN RunStep(r, PdfCompressBody(req[r].pageCount), NoError,
                    PdfCodecPrefix, PdfPrefix, "save")
       ELSE RunStep(r, <<>>, PdfCodecPrefix \o LibError, PdfCodecPrefix,
                    PdfPrefix, "save")
  /\ UNCHANGED <<req, netVars, storeVars, clockVars>>

\* The final calls of compressPDF without its completion event.
PdfFinishBodyNo100 ==
  <<CodecCall(Ev(PdfRelay(P(100)))), Call(Ev(P(90)))>>

\* pdfDoc.save() resolved: the converter's 100, the controller's 90,
\* storeForDownload, the controller's 100.
PdfFinishBody ==
  <<CodecCall(Ev(PdfRelay(P(100)))), Call(Ev(P(90))), Call(Ev(P(100)))>>

SaveDone(r, ok, outSize) ==
  /\ pc[r] = "save"
  /\ IF ok
       THEN FinishStep(r, PdfFinishBody, PdfCodecPrefix, PdfPrefix,
                       PdfFilename,
                       PdfStore(tempFiles, [owner |-> r, length |-> outSize]),
                       outSize)
       ELSE /\ RunStep(r, <<>>, PdfCodecPrefix \o LibError,
                       PdfCodecPrefix, PdfPrefix, "done")
            /\ UNCHANGED <<tempFilesDefined, tempFiles>>
  /\ UNCHANGED <<req, netVars, timers, dl, served, applied, up,
                 clockVars>>

\* -------------------------------------------------------- download route
Succeeded(r) == pc[r] = "done" /\ result[r].status = 200

\* The names a client may ask for: every handle a run returned, and two
\* that were never issued.
Requestable == {result[r].downloadUrl : r \in {x \in RunIds : Succeeded(x)}}
                 \cup {Fabricated, RawName("constructor")}

\* A download route that cancels the deletions already scheduled for the
\* name and schedules a new one.
DownloadPostpones(filename) ==
  /\ env < MaxEnv
  /\ env' = env + 1
  /\ IF tempFilesDefined /\ filename \in DOMAIN tempFiles
       THEN /\ dl' = [status |-> 200, filename |-> filename,
                      file |-> tempFiles[filename], at |-> now]
            /\ timers' = {t \in timers : t.filename # filename}
                           \cup {[filename |-> filename,
                                  due |-> now + GraceDelay]}
            /\ served' = IF filename \in DOMAIN served
                           THEN served
                           ELSE Put(served, filename,
                                    [at |-> now, file |-> tempFiles[filename]])
       ELSE /\ dl' = [status |-> 404, filename |-> filename,
                      file |-> NoFile, at |-> now]
            /\ UNCHANGED <<timers, served>>
  /\ UNCHANGED <<tempFilesDefined, tempFiles, applied, up, netVars, runVars,
                 now>>

\* GET /download/:filename. A name found on Object.prototype passes the
\* !fileData test; reading fileData.buffer.length then throws and the catch
\* answers 500, before res.send and before setTimeout.
Download(filename) ==
  /\ env < MaxEnv
  /\ env' = env + 1
  /\ IF tempFilesDefined /\ filename \in DOMAIN tempFiles
       THEN /\ dl' = [status |-> 200, filename |-> filename,
                      file |-> tempFiles[filename], at |-> now]
            /\ timers' = timers \cup {[filename |-> filename,
                                       due |-> now + GraceDelay]}
            /\ served' = IF filename \in DOMAIN served
                           THEN served
                           ELSE Put(served, filename,
                                    [at |-> now, file |-> tempFiles[filename]])
       ELSE /\ dl' = [status |->
                        IF /\ tempFilesDefined
                           /\ \E k \in ObjectPrototypeKeys :
                                filename = RawName(k)
                          THEN 500
                          ELSE 404,
                      filename |-> filename, file |-> NoFile, at |-> now]
            /\ UNCHANGED <<timers, served>>
  /\ UNCHANGED <<tempFilesDefined, tempFiles, applied, up, netVars, runVars,
                 now>>

\* A setTimeout callback that deletes nothing.
TimerFireKeeps(t) ==
  /\ t \in timers
  /\ now >= t.due
  /\ timers' = timers \ {t}
  /\ UNCHANGED <<tempFilesDefined, tempFiles, dl, served, applied, up, netVars,
                 runVars, clockVars>>

\* The setTimeout callback of the download route.
TimerFire(t) ==
  /\ t \in timers
  /\ now >= t.due
  /\ timers' = timers \ {t}
  /\ tempFiles' = IF tempFilesDefined /\ t.filename \in DOMAIN tempFiles
                    THEN Remove(tempFiles, {t.filename})
                    ELSE tempFiles
  /\ UNCHANGED <<tempFilesDefined, dl, served, applied, up, netVars, runVars,
                 clockVars>>

\* ------------------------------------------------------------------ clock
\* The clock moves on by d milliseconds, or up to the next pending timer
\* if that is due earlier; a timer that is due runs before the clock moves.
Tick(d) ==
  /\ env < MaxEnv
  /\ \A t \in timers : t.due > now
  /\ LET target == now + d
         dues == {t.due : t \in timers}
     IN now' = IF \E x \in dues : x < target
                 THEN CHOOSE x \in dues : \A y \in dues : x <= y
                 ELSE target
  /\ env' = env + 1
  /\ UNCHANGED <<netVars, storeVars, runVars>>

\* ---------------------------------------------------------------- sockets
\* wss 'connection': the socket joins wss.clients with readyState OPEN.
Connect(c) ==
  /\ env < MaxEnv
  /\ env' = env + 1
  /\ wssSet
  /\ readyState[c] = 0
  /\ readyState' = [readyState EXCEPT ![c] = OPEN]
  /\ clients' = Append(clients, c)
  /\ UNCHANGED <<wssSet, sendFails, storeVars, runVars, now>>

\* The closing handshake starts: readyState CLOSING, still in wss.clients.
BeginClose(c) ==
  /\ env < MaxEnv
  /\ env' = env + 1
  /\ readyState[c] = OPEN
  /\ readyState' = [readyState EXCEPT ![c] = 2]
  /\ UNCHANGED <<wssSet, clients, sendFails, storeVars, runVars, now>>

\* ws 'close': readyState CLOSED, the socket leaves wss.clients.
FinishClose(c) ==
  /\ env < MaxEnv
  /\ env' = env + 1
  /\ readyState[c] \in {OPEN, 2}
  /\ readyState' = [readyState EXCEPT ![c] = 3]
  /\ clients' = SelectSeq(clients, LAMBDA x : x # c)
  /\ sendFails' = sendFails \ {c}
  /\ UNCHANGED <<wssSet, storeVars, runVars, now>>

\* An open socket gets into a condition in which send() throws.
SocketFault(c) ==
  /\ env < MaxEnv
  /\ env' = env + 1
  /\ IsOpen(c)
  /\ c \notin sendFails
  /\ sendFails' = sendFails \cup {c}
  /\ UNCHANGED <<wssSet, clients, readyState, storeVars, runVars, now>>

\* ---------------------------------------------------------- specification
\* The server after start-up, with `used` environment steps counted as taken.
InitWith(used) ==
  /\ now = 0
  /\ env = used
  /\ wssSet \in BOOLEAN
  /\ clients = <<>>
  /\ readyState = [c \in ClientIds |-> 0]
  /\ sendFails = {}
  /\ sent = [c \in ClientIds |-> <<>>]
  /\ pc = [r \in RunIds |-> "idle"]
  /\ req = [r \in RunIds |-> NoReq]
  /\ pub = [r \in RunIds |-> <<>>]
  /\ result = [r \in RunIds |-> NoResult]
  /\ tempFilesDefined = FALSE
  /\ tempFiles = <<>>
  /\ timers = {}
  /\ dl = [status |-> 0, filename |-> NoName, file |-> NoFile, at |-> 0]
  /\ served = <<>>
  /\ applied = NoApplied
  /\ up = NoUpload

Init == InitWith(0)

\* Runs are started in the order of their ids.
Startable(r) == \A q \in RunIds : q < r => pc[q] # "idle"

RunNext(r) ==
  \/ \E hasData \in BOOLEAN, format \in ReqFormats \cup {""},
        level \in ReqLevels, size \in InSizes :
       Startable(r) /\ StartImage(r, hasData, format, level, size)
  \/ \E ok \in BOOLEAN : MetadataDone(r, ok)
  \/ \E ok \in BOOLEAN, outSize \in OutSizes : ToBufferDone(r, ok, outSize)
  \/ \E hasData \in BOOLEAN, level \in ReqLevels, size \in InSizes,
        pages \in PageCounts :
       Startable(r) /\ StartPdf(r, hasData, level, size, pages)
  \/ \E ok \in BOOLEAN : LoadDone(r, ok)
  \/ \E ok \in BOOLEAN : CodecLoadDone(r, ok)
  \/ \E ok \in BOOLEAN, outSize \in OutSizes : SaveDone(r, ok, outSize)

RunsNext == \E r \in RunIds : RunNext(r)

SocketNext ==
  \/ \E c \in ClientIds : Connect(c)
  \/ \E c \in ClientIds : BeginClose(c)
  \/ \E c \in ClientIds : FinishClose(c)
  \/ \E c \in ClientIds : SocketFault(c)

StoreNext ==
  \/ \E filename \in Requestable : Download(filename)
  \/ \E t \in timers : TimerFire(t)
  \/ \E d \in TickSteps : Tick(d)

Next == RunsNext \/ SocketNext \/ StoreNext

\* The whole server.
Spec == Init /\ [][Next]_vars

\* The server with the scheduling Node guarantees: a pending library call
\* returns or throws, a due timer runs, the clock moves on.  Nothing obliges
\* a client to send a request or to connect.
RunContinues(r) ==
  \/ \E ok \in BOOLEAN : MetadataDone(r, ok)
  \/ \E ok \in BOOLEAN, outSize \in OutSizes : ToBufferDone(r, ok, outSize)
  \/ \E ok \in BOOLEAN : LoadDone(r, ok)
  \/ \E ok \in BOOLEAN : CodecLoadDone(r, ok)
  \/ \E ok \in BOOLEAN, outSize \in OutSizes : SaveDone(r, ok, outSize)

FairSpec ==
  /\ Spec
  /\ \A r \in RunIds : WF_vars(RunContinues(r))
  /\ WF_vars(\E t \in timers : TimerFire(t))
  /\ WF_vars(\E d \in TickSteps : Tick(d))

\* ---- runs that succeed, downloads, timers and the clock
TimerNext ==
  \/ \E r \in RunIds, level \in ReqLevels, size \in InSizes :
       Startable(r) /\ StartImage(r, TRUE, "jpg", level, size)
  \/ \E r \in RunIds : MetadataDone(r, TRUE)
  \/ \E r \in RunIds, outSize \in OutSizes : ToBufferDone(r, TRUE, outSize)
  \/ \E r \in RunIds, level \in ReqLevels, size \in InSizes :
       Startable(r) /\ StartPdf(r, TRUE, level, size, 1)
  \/ \E r \in RunIds : LoadDone(r, TRUE)
  \/ \E r \in RunIds : CodecLoadDone(r, TRUE)
  \/ \E r \in RunIds, outSize \in OutSizes : SaveDone(r, TRUE, outSize)
  \/ \E filename \in Requestable : Download(filename)
  \/ \E t \in timers : TimerFire(t)
  \/ \E d \in TickSteps : Tick(d)

\* No listener and no failing library call, and TimerEnv downloads and
\* clock steps instead of MaxEnv.
TimerSpec == InitWith(MaxEnv - TimerEnv) /\ [][TimerNext]_vars

\* ---- the browser's conversion request and the JSON body limit
\* express.json({ limit: '50mb' }): bytes.parse('50mb')
jsonLimit == 50 * 1024 * 1024

\* The characters of readAsDataURL's base64 part for a file of n bytes:
\* four for every three bytes, the last group padded.
fileToBase64Length(n) == 4 * ((n + 2) \div 3)

\* String.prototype.length of the texts the page sends.
length(text) ==
  CASE text = "jpg" -> 3
    [] text = "svg" -> 3
    [] text = "high" -> 4
    [] OTHER -> 0

\* JSON.stringify(payload).length, every character one byte:
\* {"fileData":"...","outputFormat":"...","compressionLevel":"..."}
ImageBodyLength(n, format, level) ==
  13 + fileToBase64Length(n) + 18 + length(format) + 22 + length(level) + 2

\* {"fileData":"...","compressionLevel":"..."}
PdfBodyLength(n, level) ==
  13 + fileToBase64Length(n) + 22 + length(level) + 2

\* express.json refuses a body longer than its limit before any route runs.
BodyWithinLimit(bodyLength) == bodyLength <= jsonLimit

\* PayloadTooLargeError, answered by the error middleware with its status.
PayloadTooLarge(r) ==
  /\ pc[r] = "idle"
  /\ pc' = [pc EXCEPT ![r] = "done"]
  /\ result' = [result EXCEPT ![r] = [NoResult EXCEPT !.status = 413]]
  /\ UNCHANGED <<req, pub, sent, netVars, storeVars, clockVars>>

\* startConversion(): the file taken by the upload is sent base64-encoded
\* in a JSON body to the endpoint of its kind.
startConversion(r, format, level) ==
  /\ up.status = 200
  /\ IF up.isImage
       THEN IF BodyWithinLimit(ImageBodyLength(up.size, format, level))
              THEN StartImage(r, up.size > 0, format, level, up.size)
              ELSE PayloadTooLarge(r)
       ELSE /\ up.isPDF
            /\ IF BodyWithinLimit(PdfBodyLength(up.size, level))
                 THEN StartPdf(r, up.size > 0, level, up.size, 1)
                 ELSE PayloadTooLarge(r)

\* File sizes around the largest encodable one and around the upload limit.
SubmitSizes == {1, 39321552, 39321553, 39321568, fileSize, fileSize + 1}
SubmitFiles ==
  {[present |-> FALSE, mimetype |-> "", size |-> 0]}
    \cup [present : {TRUE},
          mimetype : {"image/png", "application/pdf", "text/plain"},
          size : SubmitSizes]

SubmitNext ==
  \/ \E file \in SubmitFiles : UploadFile(file)
  \/ \E r \in RunIds, format \in {"jpg"}, level \in ReqLevels :
       Startable(r) /\ startConversion(r, format, level)
  \/ \E r \in RunIds, ok \in BOOLEAN : MetadataDone(r, ok)
  \/ \E r \in RunIds, ok \in BOOLEAN : ToBufferDone(r, ok, req[r].size)
  \/ \E r \in RunIds, ok \in BOOLEAN : LoadDone(r, ok)
  \/ \E r \in RunIds, ok \in BOOLEAN : CodecLoadDone(r, ok)
  \/ \E r \in RunIds, ok \in BOOLEAN : SaveDone(r, ok, req[r].size)

SubmitSpec == Init /\ [][SubmitNext]_vars

\* ---- the runs and their listeners, with no download and a standing clock
RunsOnlyNext == RunsNext \/ SocketNext

\* Every pending library call returns or throws.
RunsFairSpec ==
  /\ Init
  /\ [][RunsOnlyNext]_vars
  /\ \A r \in RunIds : WF_vars(RunContinues(r))

\* ---- the routes behind their authentication middleware
\* ensureAuthenticated: next() only for a logged-in requester.
ensureAuthenticated(authenticated) == authenticated

\* optionalAuthentication: next() in every case.
optionalAuthentication(authenticated) == TRUE

\* The 401 of a middleware that does not call next().
ConvertUnauthorized(r) ==
  /\ pc[r] = "idle"
  /\ pc' = [pc EXCEPT ![r] = "done"]
  /\ result' = [result EXCEPT ![r] = [NoResult EXCEPT !.status = 401]]
  /\ UNCHANGED <<req, pub, sent, netVars, storeVars, clockVars>>

\* app.use('/api/convert', optionalAuthentication, convertRoutes)
ConvertImageRequest(r, authenticated, hasData, format, level, size) ==
  IF optionalAuthentication(authenticated)
    THEN StartImage(r, hasData, format, level, size)
    ELSE ConvertUnauthorized(r)

ConvertPdfRequest(r, authenticated, hasData, level, size, pages) ==
  IF optionalAuthentication(authenticated)
    THEN StartPdf(r, hasData, level, size, pages)
    ELSE ConvertUnauthorized(r)

DownloadRequest(authenticated, filename) ==
  IF optionalAuthentication(authenticated)
    THEN Download(filename)
    ELSE /\ env < MaxEnv
         /\ env' = env + 1
         /\ dl' = [status |-> 401, filename |-> filename, file |-> NoFile,
                   at |-> now]
         /\ UNCHANGED <<tempFilesDefined, tempFiles, timers, served, applied,
                        up, netVars, runVars, now>>

\* app.use('/api/upload', optionalAuthentication, uploadRoutes)
UploadRequest(authenticated, file) ==
  IF optionalAuthentication(authenticated)
    THEN UploadFile(file)
    ELSE /\ up' = [NoUpload EXCEPT !.status = 401]
         /\ UNCHANGED <<now, env, wssSet, clients, readyState, sendFails,
                        sent, pc, req, pub, result, tempFilesDefined,
                        tempFiles, timers, dl, served, applied>>

\* The files a client may upload.
UploadSizes == {1, fileSize, fileSize + 1}
UploadFiles ==
  {[present |-> FALSE, mimetype |-> "", size |-> 0]}
    \cup [present : {TRUE},
          mimetype : {"image/png", "application/pdf", "text/plain"},
          size : UploadSizes]

AuthNext ==
  \/ \E authenticated \in BOOLEAN, hasData \in BOOLEAN,
        format \in ReqFormats \cup {""}, level \in ReqLevels,
        size \in InSizes :
       ConvertImageRequest(1, authenticated, hasData, format, level, size)
  \/ \E ok \in BOOLEAN : MetadataDone(1, ok)
  \/ \E ok \in BOOLEAN, outSize \in OutSizes : ToBufferDone(1, ok, outSize)
  \/ \E authenticated \in BOOLEAN, hasData \in BOOLEAN, level \in ReqLevels,
        size \in InSizes, pages \in PageCounts :
       ConvertPdfRequest(1, authenticated, hasData, level, size, pages)
  \/ \E ok \in BOOLEAN : LoadDone(1, ok)
  \/ \E ok \in BOOLEAN : CodecLoadDone(1, ok)
  \/ \E ok \in BOOLEAN, outSize \in OutSizes : SaveDone(1, ok, outSize)
  \/ \E authenticated \in BOOLEAN, filename \in Requestable :
       DownloadRequest(authenticated, filename)
  \/ \E authenticated \in BOOLEAN, file \in UploadFiles :
       UploadRequest(authenticated, file)

\* One client, logged in or anonymous, uploading, converting, downloading.
AuthSpec == Init /\ [][AuthNext]_vars

\* ---- one image conversion for each output format
\* The output formats of a request: the supported ones in several letter
\* cases, and some the converter does not know.
ImageFormats ==
  {"jpg", "JPG", "Jpg", "jpeg", "JPEG", "png", "PNG", "pNg", "webp", "WEBP",
   "bmp", "BMP", "gif", "GIF", "tiff", "TIFF", "Tiff", "svg", "SVG", "heic"}

FormatNext ==
  \/ \E format \in ImageFormats, level \in ReqLevels, size \in InSizes :
       StartImage(1, TRUE, format, level, size)
  \/ \E ok \in BOOLEAN : MetadataDone(1, ok)
  \/ \E ok \in BOOLEAN, outSize \in OutSizes : ToBufferDone(1, ok, outSize)

\* One convertImage run, whatever the output format asked for.
FormatSpec == Init /\ [][FormatNext]_vars

\* ---- one conversion for each pair of input and output size
\* Byte lengths of the input buffer and of the output buffer.
RatioSizes == {1, 3, 4, 2000, 2001, 2002}

RatioNext ==
  \/ \E level \in ReqLevels, size \in RatioSizes :
       StartImage(1, TRUE, "jpg", level, size)
  \/ \E ok \in BOOLEAN : MetadataDone(1, ok)
  \/ \E ok \in BOOLEAN, outSize \in RatioSizes : ToBufferDone(1, ok, outSize)
  \/ \E level \in ReqLevels, size \in RatioSizes :
       StartPdf(1, TRUE, level, size, 1)
  \/ \E ok \in BOOLEAN : LoadDone(1, ok)
  \/ \E ok \in BOOLEAN : CodecLoadDone(1, ok)
  \/ \E ok \in BOOLEAN, outSize \in RatioSizes : SaveDone(1, ok, outSize)

\* One run of either controller, whatever the sizes of its buffers.
RatioSpec == Init /\ [][RatioNext]_vars

\* ---- the compression settings on their own
\* The compression levels and output formats a request may carry.
LevelTexts ==
  {"low", "medium", "high", "", "fast", "LOW", "constructor", "__proto__",
   "toString", "valueOf", "hasOwnProperty"}
Levels == {Absent} \cup {Given(text) : text \in LevelTexts}
SettingsFormats ==
  {"jpg", "jpeg", "png", "webp", "tiff", "JPG", "PNG", "bmp", "gif"}

\* The level getCompressionSettings is called with: as the POST handler
\* passes it on, or as a caller of the converter gives it.
PassedLevel(requested, viaRoute) ==
  IF viaRoute THEN RouteLevel(requested) ELSE requested

\* PDFConverter.compress computes its settings.
PdfSettingsCall(requested, viaRoute) ==
  /\ applied' = [kind |-> "pdf", format |-> "pdf", requested |-> requested,
                 level |-> PassedLevel(requested, viaRoute),
                 settings |->
                   getCompressionSettings(PassedLevel(requested, viaRoute))]
  /\ UNCHANGED <<now, env, wssSet, clients, readyState, sendFails, sent, pc,
                 req, pub, result, tempFilesDefined, tempFiles, timers, dl,
                 served, up>>

\* ImageConverter.convert computes its settings.
ImageSettingsCall(format, requested, viaRoute) ==
  /\ applied' = [kind |-> "image", format |-> format,
                 requested |-> requested,
                 level |-> PassedLevel(requested, viaRoute),
                 settings |->
                   imageGetCompressionSettings(
                     format, PassedLevel(requested, viaRoute))]
  /\ UNCHANGED <<now, env, wssSet, clients, readyState, sendFails, sent, pc,
                 req, pub, result, tempFilesDefined, tempFiles, timers, dl,
                 served, up>>

SettingsNext ==
  \/ \E requested \in Levels, viaRoute \in BOOLEAN :
       PdfSettingsCall(requested, viaRoute)
  \/ \E format \in SettingsFormats, requested \in Levels,
        viaRoute \in BOOLEAN :
       ImageSettingsCall(format, requested, viaRoute)

\* Calls of the two getCompressionSettings, in any order.
SettingsSpec == Init /\ [][SettingsNext]_vars

\* ------------------------------------------------------------------ claims
Range(s) == {s[i] : i \in 1..Len(s)}
Rejected(r) == pc[r] = "done" /\ result[r].status = 500
Live(r) == Succeeded(r) /\ result[r].downloadUrl \in DOMAIN tempFiles

\* C1: every identifier storeForDownload returns differs from every
\* identifier live in the store at the moment of the put, so runs that finish
\* together get pairwise distinct handles.
C1_FreshIdentifier ==
  [][\A r \in RunIds :
       (pc[r] # "done" /\ pc'[r] = "done" /\ result'[r].status = 200)
         => result'[r].downloadUrl \notin DOMAIN tempFiles]_vars

\* C2: the download route never serves a record whose age exceeds the
\* retention window of 10 minutes.
C2_NoStaleDownload ==
  dl.status = 200 => dl.at - dl.file.timestamp <= maxAge

\* C3: every record placed in the store is eventually removed from it.
C3_EveryRecordRemoved ==
  \A r \in RunIds : Live(r) ~> ~Live(r)

\* The progress of a run never goes down, except into its failure event.
NonDecreasing(events) ==
  \A i \in 1..(Len(events) - 1) :
    \/ events[i + 1].progress >= events[i].progress
    \/ /\ events[i + 1].hasError
       /\ events[i + 1].progress = 0
       /\ i + 1 = Len(events)

\* C4: for every page count, the progress values published for one
\* compressPDF run are non-decreasing, the terminal failure event excepted.
C4_PdfProgressMonotone ==
  \A r \in RunIds : req[r].kind = "pdf" => NonDecreasing(pub[r])

\* C5: the progress values published for one convertImage run are
\* non-decreasing, the terminal failure event excepted.
C5_ImageProgressMonotone ==
  \A r \in RunIds : req[r].kind = "image" => NonDecreasing(pub[r])

C5_Witness ==
  \E r \in RunIds :
    /\ req[r].kind = "image"
    /\ Succeeded(r)
    /\ [k \in 1..Len(pub[r]) |-> pub[r][k].progress]
         = <<P(10), P(30), P(36), P(48), P(66), P(84), P(90), P(90), P(100)>>

\* C6: a failed run publishes exactly one event with progress 0 and a
\* non-empty error, that event is its last, and the run rejects: a run that
\* published a failure event never returns a result.
C6_OneTerminalFailureEvent ==
  \A r \in RunIds :
    LET n == Len(pub[r])
        failures == {i \in 1..n : pub[r][i].progress = 0 \/ pub[r][i].hasError}
    IN /\ Rejected(r) =>
            /\ failures = {n}
            /\ pub[r][n].progress = 0
            /\ pub[r][n].hasError
            /\ pub[r][n].error # NoError
            /\ result[r].error # NoError
            /\ result[r].downloadUrl = NoName
       /\ failures # {} => Rejected(r)

C6_Witness ==
  \E r \in RunIds :
    /\ Rejected(r)
    /\ result[r].error = ImagePrefix \o ImageCodecPrefix \o LibError
    /\ Len(pub[r]) = 6
    /\ pub[r][6] = FailEv(ImageCodecPrefix \o LibError)

\* C7: the first event of a successful run has progress 10, its last event
\* has progress 100, and no event of the run follows the 100 event.
C7_SuccessEndsAt100 ==
  \A r \in RunIds :
    Succeeded(r) =>
      /\ Len(pub[r]) > 0
      /\ pub[r][1].progress = P(10)
      /\ \A i \in 1..Len(pub[r]) :
           pub[r][i].progress = P(100) <=> i = Len(pub[r])

C7_Witness ==
  \E r \in RunIds :
    /\ req[r].kind = "pdf"
    /\ req[r].pageCount = MaxPages
    /\ Succeeded(r)
    /\ result[r].downloadUrl \in DOMAIN tempFiles

\* The messages a broadcasting step of run r writes to a socket it reaches.
NewMessages(r) ==
  [k \in 1..(Len(pub'[r]) - Len(pub[r])) |-> <<r, Len(pub[r]) + k>>]

Publishes(r) == pub'[r] # pub[r]

\* The error text stems from a send() that threw.
FromSend(msg) == Len(msg) > 0 /\ msg[Len(msg)] = SendError[1]

SendErrorRaised(r) ==
  \/ FromSend(result'[r].error)
  \/ \E k \in (Len(pub[r]) + 1)..Len(pub'[r]) : FromSend(pub'[r][k].error)

\* C8: when the send to one listener throws during broadcastProgress, no
\* error is raised into the publishing run and the other open listeners
\* still get the event.
C8_SendFailureIsolated ==
  [][\A r \in RunIds :
       (Publishes(r) /\ BroadcastThrows) =>
         /\ ~SendErrorRaised(r)
         /\ \A c \in Range(clients) :
              (IsOpen(c) /\ c \notin sendFails) => sent'[c] = NewMessages(r)]_vars

\* C9: every event a run publishes is delivered to every listener that is
\* connected and open at that moment (and able to take it), whoever started
\* the run and whether or not the requester listens.
C9_DeliveredToEveryOpenListener ==
  [][\A r \in RunIds : \A c \in ClientIds :
       (Publishes(r) /\ readyState[c] = OPEN /\ c \notin sendFails)
         => sent'[c] = NewMessages(r)]_vars

\* C10: a listener that is not OPEN when an event is published receives
\* nothing and does not make the publisher fail; without a WebSocket server
\* publishing writes nothing and the run goes on.
C10_NotOpenIsSkipped ==
  [][\A r \in RunIds :
       Publishes(r) =>
         /\ \A c \in ClientIds : readyState[c] # OPEN => sent'[c] = <<>>
         /\ ~wssSet => \A c \in ClientIds : sent'[c] = <<>>
         /\ (~wssSet \/ \A c \in Range(clients) : readyState[c] # OPEN)
              => ~SendErrorRaised(r)]_vars

C10_Witness ==
  \E c, d \in ClientIds :
    /\ clients = <<c, d>>
    /\ readyState[c] = 2
    /\ sent[c] = <<>>
    /\ \E r \in RunIds :
         /\ pc[r] \notin {"idle", "done"}
         /\ sent[d] = [k \in 1..Len(pub[r]) |-> <<r, k>>]

\* C11: a listener receives exactly the events published while it was open:
\* nothing published before it connected is replayed to it, connecting
\* delivers nothing, and every event published while it is open reaches it.
C11_ExactlyWhileOpen ==
  [][/\ \A r \in RunIds : \A c \in ClientIds :
          Publishes(r) =>
            sent'[c] = IF readyState[c] = OPEN /\ c \notin sendFails
                         THEN NewMessages(r)
                         ELSE <<>>
     /\ (\A r \in RunIds : ~Publishes(r)) => sent' = sent]_vars

\* C12: whatever other runs publish in between, a listener receives the
\* events of one run in the order the run generated them: each step writes
\* the run's new events in rising order, all after those of earlier steps.
C12_RunOrderKept ==
  [][\A r \in RunIds : \A c \in ClientIds :
       Publishes(r) =>
         \A k \in 1..Len(sent'[c]) :
           /\ sent'[c][k][1] = r
           /\ sent'[c][k][2] > Len(pub[r])
           /\ sent'[c][k][2] <= Len(pub'[r])
           /\ k > 1 => sent'[c][k][2] > sent'[c][k - 1][2]]_vars

C12_Witness ==
  \E c \in ClientIds : \E r, q \in RunIds :
    /\ r # q
    /\ pc[q] \notin {"idle", "done"}
    /\ Len(pub[q]) > 1
    /\ Len(sent[c]) > 1
    /\ sent[c][1] = <<r, 2>>
    /\ sent[c][2] = <<r, 3>>

\* The deferred deletion scheduled by the first successful download of f.
FirstTimer(f) == [filename |-> f, due |-> served[f].at + GraceDelay]

\* C13 as stated: once a record has been downloaded and 60 seconds have
\* passed since that download, every download request for the identifier
\* is answered 404.
C13_GoneAfterGrace ==
  [][\A f \in Requestable :
       (/\ Download(f)
        /\ f \in DOMAIN served
        /\ now >= served[f].at + GraceDelay) => dl'.status = 404]_vars

\* C13 amended: once a record has been downloaded and the deferred deletion
\* scheduled by that download has run (60 seconds after it, or later), every
\* download request for the identifier is answered 404.
C13_GoneAfterTimer ==
  [][\A f \in Requestable :
       (/\ Download(f)
        /\ f \in DOMAIN served
        /\ FirstTimer(f) \notin timers) => dl'.status = 404]_vars

C13_Witness ==
  /\ dl.status = 404
  /\ dl.filename \in DOMAIN served
  /\ FirstTimer(dl.filename) \notin timers
  /\ dl.at = served[dl.filename].at + GraceDelay

\* C14: a download request for an identifier made less than 60 seconds
\* after its first successful download, while the record is no older than
\* the retention window, is served the same record again.
C14_ServedAgainWithinGrace ==
  [][\A f \in Requestable :
       (/\ Download(f)
        /\ f \in DOMAIN served
        /\ now < served[f].at + GraceDelay
        /\ now - served[f].file.timestamp <= maxAge)
         => /\ dl'.status = 200
            /\ dl'.file = served[f].file]_vars

\* Run r returns from storeForDownload and answers 200 in this step.
PutStep(r) == pc[r] # "done" /\ pc'[r] = "done" /\ result'[r].status = 200

\* C15: a put followed directly by a download of the returned handle serves
\* exactly what was put: the put leaves under the returned handle the run's
\* buffer with the content type and display name chosen for it, and a
\* download of a stored handle serves the record stored under it, unchanged.
C15_PutThenGet ==
  [][/\ \A r \in RunIds :
          PutStep(r) =>
            LET h == result'[r].downloadUrl
            IN /\ h \in DOMAIN tempFiles'
               /\ tempFiles'[h].buffer
                    = [owner |-> r, length |-> result'[r].convertedSize]
               /\ req[r].kind = "pdf" =>
                    /\ tempFiles'[h].mimeType = "application/pdf"
                    /\ tempFiles'[h].originalName
                         = <<"compressed_document.pdf">>
               /\ req[r].kind = "image" =>
                    /\ req[r].outputFormat = "jpg"
                    /\ tempFiles'[h].mimeType = "image/jpeg"
                    /\ tempFiles'[h].originalName
                         = <<"converted_image.", "jpg">>
     /\ \A f \in Requestable :
          (Download(f) /\ f \in DOMAIN tempFiles) =>
            /\ dl'.status = 200
            /\ dl'.filename = f
            /\ dl'.file = tempFiles[f]]_vars

C15_Witness ==
  \E r \in RunIds :
    /\ Succeeded(r)
    /\ req[r].kind = "image"
    /\ dl.status = 200
    /\ dl.filename = result[r].downloadUrl
    /\ dl.at = dl.file.timestamp
    /\ dl.file.buffer = [owner |-> r, length |-> result[r].convertedSize]
    /\ dl.file.mimeType = "image/jpeg"
    /\ dl.file.originalName = <<"converted_image.", "jpg">>

\* C16: every put runs the sweep: right after storeForDownload of either
\* controller has returned, the store holds no record older than 10 minutes,
\* whichever controller created it.
C16_PutSweeps ==
  [][\A r \in RunIds :
       PutStep(r) =>
         \A f \in DOMAIN tempFiles' :
           now' - tempFiles'[f].timestamp <= maxAge]_vars

C16_Witness ==
  \E r, q \in RunIds :
    /\ Succeeded(r) /\ req[r].kind = "image"
    /\ Succeeded(q) /\ req[q].kind = "pdf"
    /\ served = <<>>
    /\ result[r].downloadUrl \notin DOMAIN tempFiles
    /\ result[q].downloadUrl \in DOMAIN tempFiles
    /\ now - tempFiles[result[q].downloadUrl].timestamp = 0
    /\ now - result[r].downloadUrl[2] > maxAge

\* C17: the sweep is idempotent: whatever the store and the clock, running
\* cleanupOldFiles a second time, with no put and no clock step in between,
\* leaves the store as the first run left it.
C17_SweepIdempotent ==
  cleanupOldFiles(cleanupOldFiles(tempFiles)) = cleanupOldFiles(tempFiles)

C17_Witness ==
  /\ Expired(tempFiles) # {}
  /\ Expired(tempFiles) # DOMAIN tempFiles
  /\ cleanupOldFiles(tempFiles) # tempFiles

\* The names asked for that no run was ever given.
NeverIssued == {Fabricated, RawName("constructor")}

\* C18: a download request for an identifier that was never issued is
\* answered 404 with no artifact content, leaves the store unchanged and
\* schedules no deferred deletion.
C18_UnknownIsNotFound ==
  [][\A f \in NeverIssued :
       Download(f) =>
         /\ dl'.status = 404
         /\ dl'.file = NoFile
         /\ UNCHANGED <<tempFilesDefined, tempFiles, timers>>]_vars

\* The request of run r is answered 400 in this step and nothing else moves.
Answered400(r) ==
  /\ pc'[r] = "done"
  /\ result'[r] = [NoResult EXCEPT !.status = 400]
  /\ UNCHANGED <<pub, sent, tempFilesDefined, tempFiles, timers>>

\* C19: a conversion request without fileData (for images also: without
\* outputFormat) is answered 400 before the controller is called: it
\* publishes no progress event and leaves the store unchanged.
C19_MissingInputIs400 ==
  [][\A r \in RunIds : \A level \in ReqLevels : \A size \in InSizes :
       /\ \A format \in ReqFormats \cup {""} :
            StartImage(r, FALSE, format, level, size) => Answered400(r)
       /\ StartImage(r, TRUE, "", level, size) => Answered400(r)
       /\ \A pages \in PageCounts :
            StartPdf(r, FALSE, level, size, pages) => Answered400(r)]_vars

C19_Witness ==
  \E r, q \in RunIds :
    /\ pc[r] = "done"
    /\ result[r].status = 400
    /\ pub[r] = <<>>
    /\ pc[q] = "toBuffer"
    /\ \E c \in ClientIds : Len(sent[c]) > 0 /\ sent[c][1][1] = q

\* C20: for every compression level other than low, medium and high (absent,
\* empty or any other string) getCompressionSettings applies exactly the
\* medium settings, for PDF and for every image format that has settings.
C20_OtherLevelsAreMedium ==
  (/\ applied.kind # ""
   /\ ~(/\ applied.requested.given
        /\ applied.requested.text \in {"low", "medium", "high"}))
    => /\ applied.kind = "pdf" => applied.settings = PdfSettings.medium
       /\ (/\ applied.kind = "image"
           /\ toLowerCase(applied.format) \in DOMAIN ImageSettings)
            => applied.settings
                 = ImageSettings[toLowerCase(applied.format)].medium

\* The content type of each supported format, in each spelling asked for.
ExpectedMime ==
  [type \in {"image/jpeg", "image/png", "image/webp", "image/bmp",
             "image/gif", "image/tiff"} |->
     CASE type = "image/jpeg" -> {"jpg", "JPG", "Jpg", "jpeg", "JPEG"}
       [] type = "image/png" -> {"png", "PNG", "pNg"}
       [] type = "image/webp" -> {"webp", "WEBP"}
       [] type = "image/bmp" -> {"bmp", "BMP"}
       [] type = "image/gif" -> {"gif", "GIF"}
       [] type = "image/tiff" -> {"tiff", "TIFF", "Tiff"}]

\* C21: for every supported output format, in any letter case, a successful
\* convertImage stores a record whose content type is the MIME type of the
\* requested format, never application/octet-stream.
C21_MimeOfRequestedFormat ==
  [][\A r \in RunIds :
       (PutStep(r) /\ req[r].kind = "image") =>
         LET stored == tempFiles'[result'[r].downloadUrl]
         IN /\ stored.mimeType # "application/octet-stream"
            /\ \E type \in DOMAIN ExpectedMime :
                 /\ req[r].outputFormat \in ExpectedMime[type]
                 /\ stored.mimeType = type]_vars

C21_Witness ==
  /\ Succeeded(1)
  /\ req[1].outputFormat = "Tiff"
  /\ tempFiles[result[1].downloadUrl].mimeType = "image/tiff"

\* The reported ratio as a number of tenths of a percent.
Reported(r) ==
  IF result[r].compressionRatio.minus
    THEN 0 - result[r].compressionRatio.tenths
    ELSE result[r].compressionRatio.tenths

\* C22 as stated: the reported ratio is never clamped: it is negative
\* whenever the output is larger than the input and positive whenever the
\* output is smaller.
C22_RatioSignExact ==
  \A r \in RunIds :
    Succeeded(r) =>
      /\ result[r].convertedSize > result[r].originalSize => Reported(r) < 0
      /\ result[r].convertedSize < result[r].originalSize => Reported(r) > 0

\* C22 amended: the reported ratio is (originalSize - resultSize) /
\* originalSize * 100 of the exact byte lengths, rounded to one decimal and
\* never clamped: it is within half a tenth of the exact value, it carries a
\* minus sign exactly when the output is larger than the input, and it is
\* non-zero whenever the sizes differ by more than 0.05 % of the input.
C22_RatioRoundedNotClamped ==
  \A r \in RunIds :
    Succeeded(r) =>
      LET o == result[r].originalSize
          c == result[r].convertedSize
          ratio == result[r].compressionRatio
      IN /\ ratio.minus <=> c > o
         /\ 2 * Abs(ratio.tenths * o - 10 * 100 * Abs(o - c)) <= o
         /\ 2 * 10 * 100 * Abs(o - c) > o => ratio.tenths > 0

C22_Witness ==
  \E r \in RunIds :
    /\ Succeeded(r)
    /\ req[r].kind = "pdf"
    /\ result[r].originalSize = 1
    /\ result[r].convertedSize = 4
    /\ Reported(r) = 0 - 3000

\* C23: upload, conversion and download requests are processed the same
\* whether or not the requester is authenticated: from one state, an equal
\* request leads to the same response, events and store with and without
\* a login.
C23_AuthenticationIgnored ==
  [][/\ \A r \in RunIds : \A hasData \in BOOLEAN :
          \A level \in ReqLevels : \A size \in InSizes :
            /\ \A format \in ReqFormats \cup {""} :
                 ConvertImageRequest(r, TRUE, hasData, format, level, size)
                   <=> ConvertImageRequest(r, FALSE, hasData, format, level,
                                           size)
            /\ \A pages \in PageCounts :
                 ConvertPdfRequest(r, TRUE, hasData, level, size, pages)
                   <=> ConvertPdfRequest(r, FALSE, hasData, level, size, pages)
     /\ \A filename \in Requestable :
          DownloadRequest(TRUE, filename) <=> DownloadRequest(FALSE, filename)
     /\ \A file \in UploadFiles :
          UploadRequest(TRUE, file) <=> UploadRequest(FALSE, file)]_vars

C23_Witness ==
  \E r \in RunIds :
    /\ Succeeded(r)
    /\ pub[r][Len(pub[r])].progress = P(100)
    /\ dl.status = 200
    /\ dl.filename = result[r].downloadUrl
    /\ up.status = 200

\* C24: with a codec that reports its progress within [0, 100], every event
\* any run publishes has its progress within [0, 100], and an error is
\* carried by the terminal failure event of a run only.
C24_ProgressInRange ==
  \A r \in RunIds : \A i \in 1..Len(pub[r]) :
    /\ pub[r][i].progress >= 0
    /\ pub[r][i].progress <= P(100)
    /\ pub[r][i].hasError =>
         /\ i = Len(pub[r])
         /\ pub[r][i].progress = 0
         /\ Rejected(r)
    /\ ~pub[r][i].hasError => pub[r][i].error = NoError

C24_Witness ==
  \E r, q \in RunIds :
    /\ Succeeded(r)
    /\ req[r].kind = "pdf"
    /\ \E i \in 1..Len(pub[r]) : pub[r][i].progress = PdfRelay(P(100))
    /\ Rejected(q)
    /\ req[q].kind = "image"
    /\ Len(pub[q]) > 2
    /\ pub[q][Len(pub[q])].hasError

\* Run r is inside its controller, suspended on a library call.
Running(r) == pc[r] \notin {"idle", "done"}

\* Run r has ended the way a run may end: a result after its 100 event, or
\* a rejection after its terminal 0 event.
Ended(r) ==
  /\ pc[r] = "done"
  /\ Len(pub[r]) > 0
  /\ \/ /\ Succeeded(r)
        /\ pub[r][Len(pub[r])] = Ev(P(100))
     \/ /\ Rejected(r)
        /\ pub[r][Len(pub[r])].progress = 0
        /\ pub[r][Len(pub[r])].hasError

\* C25: every started run eventually ends, provided each library call
\* returns or throws: with a result after its 100 event or with a rejection
\* after its terminal 0 event; and a suspended run does not keep another run
\* from starting or from taking its next step.
C25_EveryRunEnds ==
  /\ \A r \in RunIds : Running(r) ~> Ended(r)
  /\ [](\A r, q \in RunIds :
          (r # q /\ Running(r)) =>
            /\ Running(q) => ENABLED RunContinues(q)
            /\ (pc[q] = "idle" /\ Startable(q)) =>
                 ENABLED StartPdf(q, TRUE, "high", 2, 1))

C25_Witness ==
  /\ pc[1] = "toBuffer"
  /\ Ended(2)
  /\ Succeeded(2)

\* C26: under any interleaving of runs and downloads a handle stands for the
\* output of the run that returned it: the record stored under the handle
\* of a run is that run's buffer as long as it is live, and a download of
\* the handle serves that run's buffer.
C26_HandleServesOwnRun ==
  \A r \in RunIds :
    /\ Live(r) =>
         tempFiles[result[r].downloadUrl].buffer
           = [owner |-> r, length |-> result[r].convertedSize]
    /\ (Succeeded(r) /\ dl.status = 200
          /\ dl.filename = result[r].downloadUrl) =>
         dl.file.buffer.owner = r

\* Run r moves in this step.
RunMoves(r) == pc'[r] # pc[r] \/ Publishes(r)

\* C27: a run that fails leaves the store as it was: none of its steps adds
\* a record, removes one or sweeps, and when it rejects no record of the
\* store holds its output.
C27_FailedRunKeepsStore ==
  [][\A r \in RunIds :
       /\ (RunMoves(r) /\ ~PutStep(r)) =>
            UNCHANGED <<tempFilesDefined, tempFiles, timers>>
       /\ (pc'[r] = "done" /\ result'[r].status = 500) =>
            \A f \in DOMAIN tempFiles' : tempFiles'[f].buffer.owner # r]_vars

C27_Witness ==
  /\ Live(1)
  /\ result[1].downloadUrl \in Expired(tempFiles)
  /\ Rejected(2)
  /\ result[2].error = ImagePrefix \o ImageCodecPrefix \o LibError

\* C28: the sweep never removes a record whose age is at most 10 minutes
\* and leaves it as it is; the record the put has just stored is live when
\* the put returns.
C28_SweepKeepsYoung ==
  [][\A r \in RunIds :
       PutStep(r) =>
         /\ result'[r].downloadUrl \in DOMAIN tempFiles'
         /\ \A f \in DOMAIN tempFiles :
              (/\ f # result'[r].downloadUrl
               /\ now - tempFiles[f].timestamp <= maxAge) =>
                /\ f \in DOMAIN tempFiles'
                /\ tempFiles'[f] = tempFiles[f]]_vars

C28_Witness ==
  \E r, q \in RunIds :
    /\ Live(r) /\ Live(q)
    /\ tempFiles[result[r].downloadUrl].timestamp = now
    /\ now - tempFiles[result[q].downloadUrl].timestamp = maxAge

\* C29: a deferred-deletion timer that fires removes the record under its
\* identifier if there is one and nothing else: every other record and
\* every other timer stays as it is, and with no record under the identifier
\* the store is unchanged. A download never touches the timers already
\* pending, so repeated downloads do not postpone the first deletion.
C29_TimerRemovesOnlyItsRecord ==
  [][/\ \A t \in timers :
          TimerFire(t) =>
            /\ t.filename \notin DOMAIN tempFiles'
            /\ DOMAIN tempFiles' = DOMAIN tempFiles \ {t.filename}
            /\ \A f \in DOMAIN tempFiles' : tempFiles'[f] = tempFiles[f]
            /\ t.filename \notin DOMAIN tempFiles => tempFiles' = tempFiles
            /\ timers' = timers \ {t}
     /\ \A f \in Requestable :
          Download(f) =>
            /\ timers \subseteq timers'
            /\ tempFiles' = tempFiles]_vars

C29_Witness ==
  \E r, q \in RunIds :
    /\ Succeeded(r)
    /\ result[r].downloadUrl \in DOMAIN served
    /\ result[r].downloadUrl \notin DOMAIN tempFiles
    /\ Live(q)
    /\ dl.status = 200
    /\ dl.filename = result[r].downloadUrl
    /\ dl.at = served[dl.filename].at + 1
    /\ now = dl.at + GraceDelay
    /\ timers = {}

\* C30: every file the upload endpoint accepted can be submitted for
\* conversion: the request that carries it is not refused for its size.
C30_AcceptedFileIsSubmitted ==
  [][\A r \in RunIds, level \in ReqLevels :
       (up.status = 200 /\ startConversion(r, "jpg", level)) =>
         result'[r].status # 413]_vars

====
